---------------------------- MODULE Spec2Model ----------------------------
(***************************************************************************)
(* Model of the Products service (src/main.py): the identifier codec, the  *)
(* document serializer, the Product model and the five request handlers    *)
(* over one MongoDB collection.                                            *)
(*                                                                         *)
(* Strings that the code inspects character by character (product_id,      *)
(* name) are sequences of one-character strings.  A native ObjectId is the *)
(* sequence of its bytes.  Prices are integers (the order relation with 0  *)
(* is all the code looks at).                                              *)
(***************************************************************************)
EXTENDS Integers, Sequences, FiniteSets, TLC

(***************************************************************************)
(* Bounds of the model.                                                    *)
(***************************************************************************)
NumClients == 2     \* requests that can be in flight at the same time
MaxInserts == 2     \* insert_one calls over the whole run
MaxPrice == 2       \* accepted payload prices range over 1..MaxPrice

Clients == 1..NumClients

(***************************************************************************)
(* Identifier codec: bson.ObjectId as validate_object_id uses it.          *)
(***************************************************************************)
\* len(oid) == 24 in ObjectId's string form; 12 bytes in native form.
OidStrLen == 24
OidByteLen == 12

HexDigits == <<"0", "1", "2", "3", "4", "5", "6", "7",
               "8", "9", "a", "b", "c", "d", "e", "f">>
UpperHexDigits == <<"A", "B", "C", "D", "E", "F">>

IsSpace(ch) == ch \in {" ", "\t", "\n", "\r"}

\* Value of a hex digit, 16 for any other character.
HexTable ==
    [ch \in {HexDigits[i] : i \in 1..16} |-> (CHOOSE i \in 1..16 : HexDigits[i] = ch) - 1]
    @@ [ch \in {UpperHexDigits[i] : i \in 1..6} |->
            9 + (CHOOSE i \in 1..6 : UpperHexDigits[i] = ch)]

HexVal(ch) == IF ch \in DOMAIN HexTable THEN HexTable[ch] ELSE 16

IsHex(ch) == HexVal(ch) < 16

\* bytes.fromhex(s), which ObjectId(s) applies to a str of length 24: ASCII
\* whitespace is skipped before each pair, a pair is two adjacent hex
\* digits.  So the characters that are not whitespace pair up in order, the
\* two of a pair are adjacent in s and both hex.  ok = FALSE is ValueError.
BytesFromHex(s) ==
    LET ns == SelectSeq([i \in 1..Len(s) |-> i], LAMBDA i : ~IsSpace(s[i]))
        n == Len(ns) \div 2
        ok == /\ Len(ns) % 2 = 0
              /\ \A k \in 1..n : /\ ns[2 * k] = ns[2 * k - 1] + 1
                                 /\ IsHex(s[ns[2 * k - 1]])
                                 /\ IsHex(s[ns[2 * k]])
    IN  [ok |-> ok,
         bytes |-> IF ok
                   THEN [k \in 1..n |-> 16 * HexVal(s[ns[2 * k - 1]]) + HexVal(s[ns[2 * k]])]
                   ELSE <<>>]

\* ObjectId.is_valid(product_id) for a str argument.
ObjectIdIsValid(s) ==
    /\ s # <<>>
    /\ Len(s) = OidStrLen
    /\ BytesFromHex(s).ok

\* ObjectId(product_id): the native identifier.
ObjectIdOf(s) == BytesFromHex(s).bytes

\* str(oid) with the two digits of each byte in the wrong order.
ObjectIdStrSwapped(oid) ==
    [i \in 1..(2 * Len(oid)) |->
        IF i % 2 = 1
        THEN HexDigits[(oid[(i + 1) \div 2] % 16) + 1]
        ELSE HexDigits[(oid[i \div 2] \div 16) + 1]]

\* str(oid): two lower-case hex digits per byte.
ObjectIdStr(oid) ==
    [i \in 1..(2 * Len(oid)) |->
        IF i % 2 = 1
        THEN HexDigits[(oid[(i + 1) \div 2] \div 16) + 1]
        ELSE HexDigits[(oid[i \div 2] % 16) + 1]]

\* validate_object_id: HTTPException(400, "Invalid ObjectId") or the ObjectId.
validate_object_id(product_id) ==
    IF ~ObjectIdIsValid(product_id)
    THEN [ok |-> FALSE, status |-> 400, detail |-> "Invalid ObjectId", oid |-> <<>>]
    ELSE [ok |-> TRUE, status |-> 200, detail |-> "", oid |-> ObjectIdOf(product_id)]


\* ObjectId(): the identifier insert_one assigns to a document without _id.
\* The n-th identifier generated in a run; only the counter part varies.
NewObjectId(n) == <<95, 157, 27, 59, 156, 157, 110, 29, 156, 157, 110, n>>

(***************************************************************************)
(* Document serializer and Product model.                                  *)
(***************************************************************************)
\* serialize_doc: a copy of the document with _id replaced by str(_id).
serialize_doc(doc) ==
    [_id |-> ObjectIdStr(doc._id), name |-> doc.name, price |-> doc.price]

Letters ==
    {"a", "b", "c", "d", "e", "f", "g", "h", "i", "j", "k", "l", "m",
     "n", "o", "p", "q", "r", "s", "t", "u", "v", "w", "x", "y", "z",
     "A", "B", "C", "D", "E", "F", "G", "H", "I", "J", "K", "L", "M",
     "N", "O", "P", "Q", "R", "S", "T", "U", "V", "W", "X", "Y", "Z"}

\* The price constraint written ge=0 instead of gt=0.
ProductValidGe(name, price) ==
    /\ Len(name) >= 1
    /\ \A i \in 1..Len(name) : name[i] \in Letters
    /\ price >= 0

\* Product's field constraints: name has min_length=1 and matches
\* ^[a-zA-Z]+$, price is gt=0.
ProductValid(name, price) ==
    /\ Len(name) >= 1
    /\ \A i \in 1..Len(name) : name[i] \in Letters
    /\ price > 0

\* Product(**serialize_doc(doc)): the alias _id populates id.
Product(ext) == [id |-> ext._id, name |-> ext.name, price |-> ext.price]

\* product.model_dump(by_alias=True, exclude={"_id", "id"})
model_dump(product) == [name |-> product.name, price |-> product.price]

(***************************************************************************)
(* The collection: documents in natural (insertion) order.  A find_one     *)
(* result is <<>> for None and <<doc>> for a document.                     *)
(***************************************************************************)
FindOneById(coll, oid) ==
    LET m == SelectSeq(coll, LAMBDA d : d._id = oid)
    IN  IF m = <<>> THEN <<>> ELSE <<m[1]>>

\* The uniqueness query filtering on a field no document has.
FindOneByNameWrongField(coll, name) == <<>>

FindOneByName(coll, name) ==
    LET m == SelectSeq(coll, LAMBDA d : d.name = name)
    IN  IF m = <<>> THEN <<>> ELSE <<m[1]>>

\* find().skip(skip).limit(limit); limit 0 is no limit.
FindSkipLimit(coll, skip, limit) ==
    LET n == Len(coll)
        last_ == IF limit = 0 \/ skip + limit > n THEN n ELSE skip + limit
    IN  SubSeq(coll, skip + 1, last_)

\* insert_one against a unique index on name: a duplicate is not stored.
InsertOneUniqueName(coll, data, oid) ==
    IF \E i \in 1..Len(coll) : coll[i].name = data.name
    THEN coll
    ELSE Append(coll, [_id |-> oid, name |-> data.name, price |-> data.price])

InsertOne(coll, data, oid) ==
    Append(coll, [_id |-> oid, name |-> data.name, price |-> data.price])

\* find_one_and_update without return_document=True: the document as it
\* was before the update.
FindOneAndUpdateBefore(coll, oid, data) ==
    LET new == [i \in 1..Len(coll) |->
                  IF coll[i]._id = oid
                  THEN [_id |-> coll[i]._id, name |-> data.name, price |-> data.price]
                  ELSE coll[i]]
    IN  [coll |-> new,
         doc |-> LET m == SelectSeq(coll, LAMBDA d : d._id = oid)
                 IN  IF m = <<>> THEN <<>> ELSE <<m[1]>>]

\* find_one_and_update against a unique index on name: no update when
\* another document holds the name.
FindOneAndUpdateUniqueName(coll, oid, data) ==
    IF \E i \in 1..Len(coll) : coll[i]._id # oid /\ coll[i].name = data.name
    THEN [coll |-> coll, doc |-> <<>>]
    ELSE LET new == [i \in 1..Len(coll) |->
                       IF coll[i]._id = oid
                       THEN [_id |-> coll[i]._id, name |-> data.name, price |-> data.price]
                       ELSE coll[i]]
         IN  [coll |-> new,
              doc |-> LET m == SelectSeq(new, LAMBDA d : d._id = oid)
                      IN  IF m = <<>> THEN <<>> ELSE <<m[1]>>]

\* find_one_and_update({"_id": oid}, {"$set": data}, return_document=True):
\* the collection afterwards and the post-update document (or None).
FindOneAndUpdate(coll, oid, data) ==
    LET new == [i \in 1..Len(coll) |->
                  IF coll[i]._id = oid
                  THEN [_id |-> coll[i]._id, name |-> data.name, price |-> data.price]
                  ELSE coll[i]]
    IN  [coll |-> new, doc |-> FindOneById(new, oid)]

\* delete_one filtering on a field no document has.
DeleteOneWrongField(coll, oid) == [coll |-> coll, deleted_count |-> 0]

\* delete_one({"_id": oid}): the collection afterwards and deleted_count.
DeleteOne(coll, oid) ==
    LET hits == {i \in 1..Len(coll) : coll[i]._id = oid}
    IN  IF hits = {}
        THEN [coll |-> coll, deleted_count |-> 0]
        ELSE LET k == CHOOSE i \in hits : \A j \in hits : i <= j
             IN  [coll |-> SubSeq(coll, 1, k - 1) \o SubSeq(coll, k + 1, Len(coll)),
                  deleted_count |-> 1]

\* What the store can answer to a filter on _id.  A native identifier that
\* is not 12 bytes long encodes to a malformed BSON element: the server may
\* reject the command (the handler then ends in an unhandled server error)
\* or find nothing.
StoreOutcomes(oid) ==
    IF Len(oid) = OidByteLen THEN {"ok"} ELSE {"ok", "error"}

(***************************************************************************)
(* State.                                                                  *)
(***************************************************************************)
VARIABLES
    collection,   \* the stored documents, in natural order
    nextOid,      \* counter of the identifiers generated so far, plus one
    pc,           \* per client: "idle", or where its create_product awaits
    req,          \* per client: the locals of its create_product in flight
    last,         \* the request completed last and its response
    raw,          \* input of validate_object_id taken on its own
    validated     \* its result

vars == <<collection, nextOid, pc, req, last, raw, validated>>

NoProduct == [id |-> <<>>, name |-> <<>>, price |-> 0]

NoReq == [product |-> NoProduct, product_data |-> model_dump(NoProduct),
          inserted_id |-> <<>>]

\* A completed request: who sent it, the handler, its arguments, and the
\* response: HTTP status, detail (or message), the products of the body,
\* and the number of collection operations the handler issued.
Resp(c, op, product_id, product, status, detail, body, ops) ==
    [client |-> c, op |-> op, product_id |-> product_id, product |-> product,
     status |-> status, detail |-> detail, body |-> body, store_ops |-> ops]

NoResp == Resp(0, "none", <<>>, NoProduct, 0, "", <<>>, 0)

Pending == [ok |-> FALSE, status |-> 0, detail |-> "pending", oid |-> <<>>]

\* return Product(**serialize_doc(doc)): 200 with the product, or the
\* model's ValidationError surfacing as a server error.
ProductResponse(c, op, product_id, product, doc, ops) ==
    IF ProductValid(doc.name, doc.price)
    THEN Resp(c, op, product_id, product, 200, "", <<Product(serialize_doc(doc))>>, ops)
    ELSE Resp(c, op, product_id, product, 500, "Internal Server Error", <<>>, ops)

(***************************************************************************)
(* Inputs of the requests.                                                 *)
(***************************************************************************)
UpperCase(s) ==
    [i \in 1..Len(s) |->
        IF HexVal(s[i]) >= 10 /\ HexVal(s[i]) < 16
        THEN UpperHexDigits[HexVal(s[i]) - 9]
        ELSE s[i]]

\* "invalid" (src/tests.py) and a 24-character string of 11 hex pairs
\* between two blanks.
InvalidStr == <<"i", "n", "v", "a", "l", "i", "d">>
BlankPadded == <<" ">> \o SubSeq(ObjectIdStr(NewObjectId(1)), 1, 22) \o <<" ">>

ProductIds ==
    {ObjectIdStr(NewObjectId(n)) : n \in 1..MaxInserts}
    \cup {UpperCase(ObjectIdStr(NewObjectId(1))), InvalidStr, BlankPadded}

\* validate_object_id on the identifiers the requests carry.
Validated == [product_id \in ProductIds |-> validate_object_id(product_id)]

Milk == <<"M", "i", "l", "k">>
Tea == <<"T", "e", "a">>

\* Payloads the Product model accepts, one of them carrying an id of its
\* own, and payloads it rejects (src/tests.py: "   ", "Milk123").
ValidPayloads ==
    [id : {<<>>}, name : {Milk, Tea}, price : 1..MaxPrice]
    \cup {[id |-> ObjectIdStr(NewObjectId(1)), name |-> Tea, price |-> 1]}

InvalidPayloads ==
    {[id |-> <<>>, name |-> <<>>, price |-> 1],
     [id |-> <<>>, name |-> <<" ", " ", " ">>, price |-> 1],
     [id |-> <<>>, name |-> Milk \o <<"1", "2", "3">>, price |-> 1],
     [id |-> <<>>, name |-> Milk, price |-> 0],
     [id |-> <<>>, name |-> Milk, price |-> -1]}

Payloads == ValidPayloads \cup InvalidPayloads

Skips == {0, 1}
Limits == {0, 1, 10}

(***************************************************************************)
(* Request handlers.  A handler with one collection operation is one       *)
(* step; create_product is one step per await.  The store answers every    *)
(* well-formed command: a connection failure is not modelled.              *)
(***************************************************************************)
get_products(c, skip, limit) ==
    /\ pc[c] = "idle"
    /\ LET docs == FindSkipLimit(collection, skip, limit)
       IN  last' = IF \A i \in 1..Len(docs) : ProductValid(docs[i].name, docs[i].price)
                   THEN Resp(c, "list", <<>>, NoProduct, 200, "",
                             [i \in 1..Len(docs) |-> Product(serialize_doc(docs[i]))], 1)
                   ELSE Resp(c, "list", <<>>, NoProduct, 500, "Internal Server Error", <<>>, 1)
    /\ UNCHANGED <<collection, nextOid, pc, req, raw, validated>>

get_product(c, product_id) ==
    /\ pc[c] = "idle"
    /\ LET v == Validated[product_id]
       IN  IF ~v.ok
           THEN last' = Resp(c, "get", product_id, NoProduct, v.status, v.detail, <<>>, 0)
           ELSE \E o \in StoreOutcomes(v.oid) :
                  LET product == FindOneById(collection, v.oid)
                  IN  last' = IF o = "error"
                              THEN Resp(c, "get", product_id, NoProduct,
                                        500, "Internal Server Error", <<>>, 1)
                              ELSE IF product # <<>>
                              THEN ProductResponse(c, "get", product_id, NoProduct, product[1], 1)
                              ELSE Resp(c, "get", product_id, NoProduct,
                                        404, "Product not found", <<>>, 1)
    /\ UNCHANGED <<collection, nextOid, pc, req, raw, validated>>

\* create_product up to and including the find_one by name.
create_product(c, product) ==
    /\ pc[c] = "idle"
    /\ nextOid + Cardinality({d \in Clients : pc[d] = "create_insert"}) <= MaxInserts
    /\ IF ~ProductValid(product.name, product.price)
       THEN /\ last' = Resp(c, "create", <<>>, product, 422, "ValidationError", <<>>, 0)
            /\ UNCHANGED <<pc, req>>
       ELSE LET existing == FindOneByName(collection, product.name)
            IN  IF existing # <<>>
                THEN /\ last' = Resp(c, "create", <<>>, product,
                                     400, "Product already exists", <<>>, 1)
                     /\ UNCHANGED <<pc, req>>
                ELSE /\ pc' = [pc EXCEPT ![c] = "create_insert"]
                     /\ req' = [req EXCEPT ![c] = [product |-> product,
                                                   product_data |-> model_dump(product),
                                                   inserted_id |-> <<>>]]
                     /\ UNCHANGED last
    /\ UNCHANGED <<collection, nextOid, raw, validated>>

\* result = await collection.insert_one(product_data)
create_insert(c) ==
    /\ pc[c] = "create_insert"
    /\ LET oid == NewObjectId(nextOid)
       IN  /\ collection' = InsertOne(collection, req[c].product_data, oid)
           /\ req' = [req EXCEPT ![c].inserted_id = oid]
    /\ nextOid' = nextOid + 1
    /\ pc' = [pc EXCEPT ![c] = "create_reread"]
    /\ UNCHANGED <<last, raw, validated>>

\* new_product = await collection.find_one({"_id": result.inserted_id});
\* serialize_doc(None) raises TypeError: an unhandled server error.
create_reread(c) ==
    /\ pc[c] = "create_reread"
    /\ LET new_product == FindOneById(collection, req[c].inserted_id)
       IN  last' = IF new_product = <<>>
                   THEN Resp(c, "create", <<>>, req[c].product,
                             500, "Internal Server Error", <<>>, 3)
                   ELSE ProductResponse(c, "create", <<>>, req[c].product, new_product[1], 3)
    /\ pc' = [pc EXCEPT ![c] = "idle"]
    /\ req' = [req EXCEPT ![c] = NoReq]
    /\ UNCHANGED <<collection, nextOid, raw, validated>>

\* The payload is validated before the handler body runs, the identifier
\* in it.
update_product(c, product_id, update_model) ==
    /\ pc[c] = "idle"
    /\ IF ~ProductValid(update_model.name, update_model.price)
       THEN /\ last' = Resp(c, "update", product_id, update_model,
                            422, "ValidationError", <<>>, 0)
            /\ UNCHANGED collection
       ELSE LET v == Validated[product_id]
            IN  IF ~v.ok
                THEN /\ last' = Resp(c, "update", product_id, update_model,
                                     v.status, v.detail, <<>>, 0)
                     /\ UNCHANGED collection
                ELSE \E o \in StoreOutcomes(v.oid) :
                       LET r == FindOneAndUpdate(collection, v.oid, model_dump(update_model))
                       IN  IF o = "error"
                           THEN /\ last' = Resp(c, "update", product_id, update_model,
                                                500, "Internal Server Error", <<>>, 1)
                                /\ UNCHANGED collection
                           ELSE /\ collection' = r.coll
                                /\ last' = IF r.doc # <<>>
                                           THEN ProductResponse(c, "update", product_id,
                                                                update_model, r.doc[1], 1)
                                           ELSE Resp(c, "update", product_id, update_model,
                                                     404, "Product not found", <<>>, 1)
    /\ UNCHANGED <<nextOid, pc, req, raw, validated>>

delete_product(c, product_id) ==
    /\ pc[c] = "idle"
    /\ LET v == Validated[product_id]
       IN  IF ~v.ok
           THEN /\ last' = Resp(c, "delete", product_id, NoProduct,
                                v.status, v.detail, <<>>, 0)
                /\ UNCHANGED collection
           ELSE \E o \in StoreOutcomes(v.oid) :
                  LET r == DeleteOne(collection, v.oid)
                  IN  IF o = "error"
                      THEN /\ last' = Resp(c, "delete", product_id, NoProduct,
                                           500, "Internal Server Error", <<>>, 1)
                           /\ UNCHANGED collection
                      ELSE /\ collection' = r.coll
                           /\ last' = IF r.deleted_count = 1
                                      THEN Resp(c, "delete", product_id, NoProduct,
                                                200, "Product successfully deleted", <<>>, 1)
                                      ELSE Resp(c, "delete", product_id, NoProduct,
                                                404, "Product not found", <<>>, 1)
    /\ UNCHANGED <<nextOid, pc, req, raw, validated>>

(***************************************************************************)
(* Specifications.                                                         *)
(***************************************************************************)
Init ==
    /\ collection = <<>>
    /\ nextOid = 1
    /\ pc = [c \in Clients |-> "idle"]
    /\ req = [c \in Clients |-> NoReq]
    /\ last = NoResp
    /\ raw = <<>>
    /\ validated = Pending

Create(c) ==
    \/ \E product \in Payloads : create_product(c, product)
    \/ create_insert(c)
    \/ create_reread(c)

Step(c) ==
    \/ \E skip \in Skips, limit \in Limits : get_products(c, skip, limit)
    \/ \E product_id \in ProductIds : get_product(c, product_id)
    \/ \E product_id \in ProductIds : delete_product(c, product_id)
    \/ Create(c)
    \/ \E product_id \in ProductIds, update_model \in Payloads :
          update_product(c, product_id, update_model)

Next == \E c \in Clients : Step(c)

\* Requests handled concurrently: the steps of the clients interleave.
Spec == Init /\ [][Next]_vars

\* One client: every request completes before the next one starts.
NextSeq == Step(1)

SpecSeq == Init /\ [][NextSeq]_vars

\* Concurrent create requests and nothing else.
NextCreate == \E c \in Clients : Create(c)

SpecCreate == Init /\ [][NextCreate]_vars

(***************************************************************************)
(* validate_object_id on its own, over strings around the well-formed      *)
(* ones: a well-formed identifier with up to two characters replaced, its  *)
(* prefixes, and one character more.                                       *)
(***************************************************************************)
WellFormed == ObjectIdStr(NewObjectId(1))

ProbeChars == {"g", " ", "F", "0", "-"}

RawInputs ==
    {[WellFormed EXCEPT ![i] = x, ![j] = y] :
        i \in 1..OidStrLen, j \in 1..OidStrLen, x \in ProbeChars, y \in ProbeChars}
    \cup {SubSeq(WellFormed, 1, n) : n \in 0..OidStrLen}
    \cup {WellFormed \o <<"0">>, InvalidStr, BlankPadded}

InitValidate ==
    /\ collection = <<>>
    /\ nextOid = 1
    /\ pc = [c \in Clients |-> "idle"]
    /\ req = [c \in Clients |-> NoReq]
    /\ last = NoResp
    /\ raw \in RawInputs
    /\ validated = Pending

Validate ==
    /\ validated = Pending
    /\ validated' = validate_object_id(raw)
    /\ UNCHANGED <<collection, nextOid, pc, req, last, raw>>

SpecValidate == InitValidate /\ [][Validate]_vars

(***************************************************************************)
(* The properties.  Their vocabulary is stated on its own, apart from the  *)
(* operators that model the code.                                          *)
(***************************************************************************)
HexChars ==
    {"0", "1", "2", "3", "4", "5", "6", "7", "8", "9",
     "a", "b", "c", "d", "e", "f", "A", "B", "C", "D", "E", "F"}

\* Exactly 24 characters, all hex digits.
IsWellFormedId(s) ==
    /\ Len(s) = 24
    /\ \A i \in 1..Len(s) : s[i] \in HexChars

LowerCase(s) ==
    [i \in 1..Len(s) |->
        CASE s[i] = "A" -> "a" [] s[i] = "B" -> "b" [] s[i] = "C" -> "c"
          [] s[i] = "D" -> "d" [] s[i] = "E" -> "e" [] s[i] = "F" -> "f"
          [] OTHER -> s[i]]

\* Non-empty alphabetic name and a price above zero.
IsValidPayload(p) ==
    /\ p.name # <<>>
    /\ \A i \in 1..Len(p.name) : p.name[i] \in Letters
    /\ p.price > 0

\* The identifiers of the requests as a client reads them in a response.
Canonical == [id \in ProductIds |-> LowerCase(id)]

\* Document d is the one a client names by id.
Holds(d, id) == ObjectIdStr(d._id) = Canonical[id]

HasDuplicateName(coll) ==
    \E i, j \in 1..Len(coll) : i < j /\ coll[i].name = coll[j].name

\* C1: with one request at a time, a create with a valid payload whose
\* name a stored document already has answers 400 "Product already exists"
\* after the one find_one, the request ends there and the collection is as
\* before.
C1_CreateConflictNoWrite ==
    [][\A p \in Payloads :
         (/\ create_product(1, p)
          /\ IsValidPayload(p)
          /\ \E i \in 1..Len(collection) : collection[i].name = p.name)
         => /\ last'.op = "create" /\ last'.client = 1 /\ last'.product = p
            /\ last'.status = 400
            /\ last'.detail = "Product already exists"
            /\ last'.store_ops = 1
            /\ pc'[1] = "idle"
            /\ collection' = collection]_vars

C1_Witness ==
    /\ last.op = "create"
    /\ last.status = 400
    /\ last.detail = "Product already exists"
    /\ \E i \in 1..Len(collection) : collection[i].name = last.product.name

\* C2: with one request at a time, a create with a valid payload whose
\* name is new goes on to insert and answers 200 with a product; a get of
\* the identifier it returned, sent next, answers 200 with that identifier
\* and the payload's name and price.
C2_RoundTrip ==
    [][/\ \A p \in Payloads :
            (/\ create_product(1, p)
             /\ IsValidPayload(p)
             /\ ~\E i \in 1..Len(collection) : collection[i].name = p.name)
            => (pc'[1] = "create_insert" /\ req'[1].product = p)
       /\ create_reread(1)
            => /\ last'.op = "create" /\ last'.product = req[1].product
               /\ last'.status = 200
               /\ Len(last'.body) = 1
       /\ \A id \in ProductIds :
            (/\ last.op = "create"
             /\ last.status = 200
             /\ last.body[1].id = id
             /\ get_product(1, id))
            => /\ last'.op = "get"
               /\ last'.status = 200
               /\ last'.body = <<[id |-> id, name |-> last.product.name,
                                  price |-> last.product.price]>>]_vars

C2_Witness ==
    /\ last.op = "get"
    /\ last.status = 200
    /\ Len(collection) >= 1
    /\ last.body = <<[id |-> last.product_id,
                      name |-> collection[Len(collection)].name,
                      price |-> collection[Len(collection)].price]>>

\* C3: with one request at a time, a delete with a well-formed id answers
\* 200 with the confirmation exactly when a document with that id is
\* stored, and then removes that document and no other; otherwise it
\* answers 404 and the collection is as before.  A delete of the id just
\* deleted answers 404.
C3_DeleteExactlyOne ==
    [][(/\ last'.op = "delete"
        /\ delete_product(1, last'.product_id)
        /\ IsWellFormedId(last'.product_id))
       => /\ IF \E i \in 1..Len(collection) : Holds(collection[i], last'.product_id)
             THEN /\ last'.status = 200
                  /\ last'.detail = "Product successfully deleted"
                  /\ Len(collection') = Len(collection) - 1
                  /\ collection' = SelectSeq(collection,
                                             LAMBDA d : ~Holds(d, last'.product_id))
             ELSE /\ last'.status = 404
                  /\ last'.detail = "Product not found"
                  /\ collection' = collection
          /\ (/\ last.op = "delete"
              /\ last.status = 200
              /\ last.product_id = last'.product_id)
               => last'.status = 404]_vars

C3_Witness ==
    /\ last.op = "delete"
    /\ last.status = 404
    /\ \E n \in 1..MaxInserts :
         /\ n < nextOid
         /\ last.product_id = ObjectIdStr(NewObjectId(n))
    /\ Len(collection) >= 1

\* C4: a get, update (with a valid payload) or delete whose product_id is
\* not 24 hex digits answers 400 "Invalid ObjectId" and issues no operation
\* on the collection.
C4_MalformedIdNoStoreOp ==
    (/\ last.op \in {"get", "update", "delete"}
     /\ ~IsWellFormedId(last.product_id)
     /\ (last.op = "update" => IsValidPayload(last.product)))
    => /\ last.status = 400
       /\ last.detail = "Invalid ObjectId"
       /\ last.store_ops = 0

\* C5: every stored document has a non-empty alphabetic name and a price
\* above zero, and a create or update whose payload has not is answered
\* with the validation error before any operation on the collection.
C5_StoredProductsValid ==
    /\ \A i \in 1..Len(collection) : IsValidPayload(collection[i])
    /\ (last.op \in {"create", "update"} /\ ~IsValidPayload(last.product))
         => /\ last.status = 422
            /\ last.detail = "ValidationError"
            /\ last.store_ops = 0

C5_Witness ==
    /\ last.op \in {"create", "update"}
    /\ last.status = 422
    /\ last.product.price <= 0
    /\ Len(collection) >= 1

\* C6: validate_object_id succeeds for exactly the strings of 24 hex
\* digits.
C6_ValidateIffWellFormed ==
    validated # Pending => (validated.ok <=> IsWellFormedId(raw))

\* C7: an update with a valid payload and a well-formed id sets the name
\* and price of the document with that id, keeps its identifier, its
\* position and every other document, and answers 200 with the document as
\* updated; with no such document it answers 404, the collection is as
\* before and nothing is created.
C7_UpdateFrame ==
    [][(/\ last'.op = "update"
        /\ update_product(last'.client, last'.product_id, last'.product)
        /\ IsValidPayload(last'.product)
        /\ IsWellFormedId(last'.product_id))
       => IF \E i \in 1..Len(collection) : Holds(collection[i], last'.product_id)
          THEN /\ last'.status = 200
               /\ last'.body = <<[id |-> Canonical[last'.product_id],
                                  name |-> last'.product.name,
                                  price |-> last'.product.price]>>
               /\ Len(collection') = Len(collection)
               /\ \A i \in 1..Len(collection) :
                    IF Holds(collection[i], last'.product_id)
                    THEN collection'[i] = [_id |-> collection[i]._id,
                                           name |-> last'.product.name,
                                           price |-> last'.product.price]
                    ELSE collection'[i] = collection[i]
          ELSE /\ last'.status = 404
               /\ last'.detail = "Product not found"
               /\ collection' = collection]_vars

C7_Witness ==
    /\ last.op = "update"
    /\ last.status = 200
    /\ Len(collection) = 2
    /\ \E i \in 1..2 : /\ Holds(collection[i], last.product_id)
                       /\ collection[i].name = last.product.name
                       /\ collection[i].price = last.product.price

\* C8: the insert of a create stores the payload whatever names are stored
\* by then, and with creates alone every create that inserted answers 200:
\* two creates of one name that both pass the find_one before either
\* inserts leave two documents of that name.
C8_InsertWithoutRecheck ==
    [][\A c \in Clients :
         /\ create_insert(c)
              => collection' = Append(collection,
                                      [_id |-> NewObjectId(nextOid),
                                       name |-> req[c].product.name,
                                       price |-> req[c].product.price])
         /\ create_reread(c) => last'.status = 200]_vars

C8_Witness ==
    /\ HasDuplicateName(collection)
    /\ \A c \in Clients : pc[c] = "idle"
    /\ last.op = "create"
    /\ last.status = 200

\* C9: with one request at a time, an update of a stored document to a
\* name another document holds answers 200, never the conflict, and leaves
\* two documents of that name.
C9_UpdateNoUniquenessCheck ==
    [][(/\ last'.op = "update"
        /\ update_product(1, last'.product_id, last'.product)
        /\ IsValidPayload(last'.product)
        /\ IsWellFormedId(last'.product_id)
        /\ \E i, j \in 1..Len(collection) :
             /\ Holds(collection[i], last'.product_id)
             /\ i # j
             /\ collection[j].name = last'.product.name)
       => /\ last'.status = 200
          /\ last'.detail # "Product already exists"
          /\ HasDuplicateName(collection')]_vars

C9_Witness ==
    /\ HasDuplicateName(collection)
    /\ last.op = "update"
    /\ last.status = 200

\* C10: a create that has inserted answers 200 with the inserted
\* document's identifier and the payload's name and price, whatever the
\* other requests do meanwhile.
C10_CreateRereadFindsInserted ==
    [][\A c \in Clients :
         create_reread(c)
         => /\ last'.status = 200
            /\ last'.body = <<[id |-> ObjectIdStr(req[c].inserted_id),
                               name |-> req[c].product.name,
                               price |-> req[c].product.price]>>]_vars

=============================================================================
